---------------------------- MODULE Spec2Model ----------------------------
(***************************************************************************)
(* Model of the Servirtium playback server (src/src/servirtium_server.rs): *)
(* the process-wide ServirtiumServer state behind SERVIRTIUM_INSTANCE, the  *)
(* TEST_LOCK that serialises tests, the listener thread started once by    *)
(* SERVIRTIUM_INIT, and the markdown fixture codec.                         *)
(*                                                                         *)
(* Text is modelled as a sequence of atoms.  An atom is a piece of text     *)
(* that the two regular expressions of the program treat as a unit: the    *)
(* literals they search for, white space, and words.                        *)
(***************************************************************************)
EXTENDS Integers, Sequences, FiniteSets, TLC

VARIABLES
  pc,                \* test thread -> its position in prepare_for_test / the test body
  args,              \* test thread -> the arguments of its prepare_for_test call
  err,               \* test thread -> the Err value its last call returned
  reply,             \* test thread -> what its HTTP client got back for its request
  reads,             \* test thread -> the paths fs::read_to_string was called on
  testLock,          \* holder of TEST_LOCK
  testPoisoned,      \* poison flag of TEST_LOCK
  stateLock,         \* holder of the SERVIRTIUM_INSTANCE mutex
  statePoisoned,     \* poison flag of the SERVIRTIUM_INSTANCE mutex
  interaction_mode,  \* ServirtiumServer.interaction_mode
  domain_name,       \* ServirtiumServer.domain_name
  once,              \* SERVIRTIUM_INIT
  listeners_started, \* number of listener threads spawned so far
  lpc,               \* position of the listener thread
  backlog,           \* connections established and not yet accepted
  cur,               \* the connection the listener is servicing
  files,             \* the file system: path -> text, or NoFile
  request,           \* test thread -> the first line of the request it sent
  served,            \* <<first line read, bytes written>> of every connection
                     \* serviced since the last assignment of interaction_mode
  hung_up,           \* connections whose client closed its end unanswered
  client             \* the call of get_average_annual_rainfall in progress

vars == <<pc, args, err, reply, reads, testLock, testPoisoned, stateLock,
          statePoisoned, interaction_mode, domain_name, once,
          listeners_started, lpc, backlog, cur, files, request, served,
          hung_up, client>>

----------------------------------------------------------------------------
(* Bounds *)

NumTests == 2

MaxSpawns == 3

MaxHeaderLines == 2

\* segments of a document given to load_playback_file
MaxSegments == 5

Tests == 1..NumTests

----------------------------------------------------------------------------
(* Atoms of text *)

H2 == "## "
SLASH == "/"
XML == ".xml"
HH == "### Response headers recorded for playback"
BH == "### Response body recorded for playback"
\* the code fence: three backquotes
FENCE == "<fence>"
NL == "\n"
SP == " "
COLON == ": "
CRLF == "\r\n"
STATUS_LINE == "HTTP/1.1 200 OK"

\* \s of the regex crate, and char::is_whitespace of str::trim
IsSpace(a) == a \in {NL, SP}

\* "## " also occurs inside the two "### ..." sub-headings
StartsHeading(a) == a \in {H2, HH, BH}

\* [a-zA-Z\-]+ : the atoms made of ASCII letters and hyphens only
IsKeyAtom(a) == a \in {"Transfer-Encoding", "transfer-encoding", "Date",
                       "chunked", "gzip", "pr", "gbr", "fra", "body"}

Min(S) == CHOOSE x \in S : \A y \in S : x <= y
Max(S) == CHOOSE x \in S : \A y \in S : x >= y

\* index of the first occurrence of atom a in d after position lo; 0 if none
FirstAfter(d, lo, a) ==
  LET S == {i \in (lo + 1)..Len(d) : d[i] = a}
  IN IF S = {} THEN 0 ELSE Min(S)

\* str::trim
Trim(s) ==
  LET N == {i \in 1..Len(s) : ~IsSpace(s[i])}
  IN IF N = {} THEN <<>> ELSE SubSeq(s, Min(N), Max(N))


----------------------------------------------------------------------------
(* MARKDOWN_REGEX and HEADER_REGEX, matched as the regex crate matches     *)
(* them: the leftmost match, greedy and lazy repetitions in their order of *)
(* preference.                                                             *)

NoMatch == [matched |-> FALSE]

\* a tail that takes the body section wherever it stands after the uri
SectionsAfterAnyOrder(d, e) ==
  LET nxt(lo, a) == IF lo = 0 THEN 0 ELSE FirstAfter(d, lo, a)
      h  == nxt(e, HH)
      f1 == nxt(h, FENCE)
      f2 == nxt(f1, FENCE)
      b  == nxt(e, BH)
      f3 == nxt(b, FENCE)
      f4 == nxt(f3, FENCE)
  IN [h |-> h, f1 |-> f1, f2 |-> f2, b |-> b, f3 |-> f3, f4 |-> f4]

\* the lazy tail of MARKDOWN_REGEX after the uri group: each lazy .*? stops at
\* the first occurrence of the literal that follows it
SectionsAfter(d, e) ==
  LET nxt(lo, a) == IF lo = 0 THEN 0 ELSE FirstAfter(d, lo, a)
      h  == nxt(e, HH)
      f1 == nxt(h, FENCE)
      f2 == nxt(f1, FENCE)
      b  == nxt(f2, BH)
      f3 == nxt(b, FENCE)
      f4 == nxt(f3, FENCE)
  IN [h |-> h, f1 |-> f1, f2 |-> f2, b |-> b, f3 |-> f3, f4 |-> f4]

\* the positions where the greedy (?P<uri>.*\.xml) may end with the rest matching
UriEnds(d) == {e \in 1..Len(d) : d[e] = XML /\ SectionsAfter(d, e).f4 # 0}

MarkdownCaptures(d) ==
  LET ends   == UriEnds(d)
      starts == {s \in 1..Len(d) :
                   StartsHeading(d[s]) /\ \E e \in ends : e > s}
  IN IF starts = {} THEN NoMatch
     ELSE LET s   == Min(starts)
              \* greedy .* backtracks from the end of the text
              e   == Max(ends)
              \* greedy [^/]* stops at the first slash, or gives back to .xml
              q   == FirstAfter(d, s, SLASH)
              p   == IF q # 0 /\ q <= e THEN q ELSE e
              sec == SectionsAfter(d, e)
          IN [matched      |-> TRUE,
              uri          |-> SubSeq(d, p, e),
              headers_part |-> Trim(SubSeq(d, sec.f1 + 1, sec.f2 - 1)),
              body_part    |-> Trim(SubSeq(d, sec.f3 + 1, sec.f4 - 1))]

\* the lines of a text: (?m) lets $ match before every "\n"
RECURSIVE Lines(_)
Lines(s) ==
  LET n == FirstAfter(s, 0, NL)
  IN IF n = 0 THEN <<s>>
     ELSE <<SubSeq(s, 1, n - 1)>> \o Lines(SubSeq(s, n + 1, Len(s)))

\* end of the run of [a-zA-Z\-] atoms that starts at i
RunEnd(line, i) ==
  Min({k \in i..Len(line) : k = Len(line) \/ ~IsKeyAtom(line[k + 1])})

\* HEADER_REGEX on one line: the leftmost key followed by ": "
HeaderCaptures(line) ==
  LET S == {i \in 1..Len(line) :
              /\ IsKeyAtom(line[i])
              /\ RunEnd(line, i) < Len(line)
              /\ line[RunEnd(line, i) + 1] = COLON}
  IN IF S = {} THEN NoMatch
     ELSE LET i == Min(S)
              j == RunEnd(line, i)
          IN [matched      |-> TRUE,
              header_key   |-> SubSeq(line, i, j),
              header_value |-> SubSeq(line, j + 2, Len(line))]

RECURSIVE HeadersOfLines(_)
HeadersOfLines(ls) ==
  IF ls = <<>> THEN <<>>
  ELSE LET c == HeaderCaptures(Head(ls))
       IN (IF c.matched
           THEN << <<Trim(c.header_key), Trim(c.header_value)>> >>
           ELSE <<>>) \o HeadersOfLines(Tail(ls))

parse_headers(headers_part) == HeadersOfLines(Lines(headers_part))

----------------------------------------------------------------------------
(* load_playback_file *)

NoFile == "NoFile"

Ok(v) == [ok |-> TRUE, value |-> v]
Err(e) == [ok |-> FALSE, error |-> e]

\* a loader that answers an empty record for a text it cannot decode
load_playback_file_lenient(contents) ==
  IF contents = NoFile THEN [ok |-> FALSE, error |-> "IoError"]
  ELSE LET markdown_captures == MarkdownCaptures(contents)
       IN [ok |-> TRUE,
           value |-> IF markdown_captures.matched
                     THEN [headers       |-> parse_headers(markdown_captures.headers_part),
                           response_body |-> markdown_captures.body_part,
                           uri           |-> markdown_captures.uri]
                     ELSE [headers |-> <<>>, response_body |-> <<>>, uri |-> <<>>]]

load_playback_file(contents) ==
  IF contents = NoFile THEN Err("IoError")
  ELSE LET markdown_captures == MarkdownCaptures(contents)
       IN IF ~markdown_captures.matched THEN Err("InvalidMarkdownFormat")
          ELSE Ok([headers       |-> parse_headers(markdown_captures.headers_part),
                   response_body |-> markdown_captures.body_part,
                   uri           |-> markdown_captures.uri])

----------------------------------------------------------------------------
(* handle_playback: the bytes written to the stream *)

TE == "Transfer-Encoding"
CHUNKED == "chunked"

\* the filter with && in place of ||
KeepHeaderBoth(h) == h[1] # <<TE>> /\ h[2] # <<CHUNKED>>

\* the closure given to filter
KeepHeader(h) == h[1] # <<TE>> \/ h[2] # <<CHUNKED>>

\* the closure given to map
FormatHeader(h) == h[1] \o <<COLON>> \o h[2] \o <<CRLF>>

RECURSIVE Join(_)
Join(ss) == IF ss = <<>> THEN <<>> ELSE Head(ss) \o Join(Tail(ss))

\* a map that yields the lines last pair first
RECURSIVE MapFormatReversed(_)
MapFormatReversed(hs) ==
  IF hs = <<>> THEN <<>>
  ELSE MapFormatReversed(Tail(hs)) \o <<FormatHeader(Head(hs))>>

RECURSIVE MapFormat(_)
MapFormat(hs) ==
  IF hs = <<>> THEN <<>> ELSE <<FormatHeader(Head(hs))>> \o MapFormat(Tail(hs))

\* a response whose header section is not closed by the empty line
PlaybackResponseNoBlankLine(playback_data) ==
  <<STATUS_LINE, CRLF>>
    \o Join(MapFormat(SelectSeq(playback_data.headers, KeepHeader)))
    \o playback_data.response_body

PlaybackResponse(playback_data) ==
  IF playback_data.headers = <<>>
  THEN <<STATUS_LINE, CRLF, CRLF>> \o playback_data.response_body
  ELSE LET headers == Join(MapFormat(SelectSeq(playback_data.headers, KeepHeader)))
       IN <<STATUS_LINE, CRLF>> \o headers \o <<CRLF>> \o playback_data.response_body

\* a handler that replays the record only to a request for the recorded uri
handle_playback_by_uri(first_line, playback_data) ==
  IF Len(first_line) >= 2
       /\ SubSeq(first_line, 3, Len(first_line)) = playback_data.uri
  THEN PlaybackResponse(playback_data)
  ELSE <<"HTTP/1.1 404 Not Found", CRLF, CRLF>>

\* handle_playback: the first line read at line 107 is dropped (let _ =)
handle_playback(first_line, playback_data) == PlaybackResponse(playback_data)

----------------------------------------------------------------------------
(* The fixture files of the tests *)

Paths == {"a.md", "b.md", "bad.md", "missing.md"}

Domains == {"d1", "d2"}

Modes == {"Playback", "Record"}

DocA ==
  <<H2, "Interaction", SP, SLASH, "pr", SLASH, "gbr", XML, NL,
    HH, NL, FENCE, NL,
    "Date", COLON, "gzip", NL, TE, COLON, CHUNKED, NL,
    FENCE, NL,
    BH, NL, FENCE, NL, "gbr", NL, FENCE, NL>>

DocB ==
  <<H2, "Interaction", SP, SLASH, "pr", SLASH, "fra", XML, NL,
    HH, NL, FENCE, NL, FENCE, NL,
    BH, NL, FENCE, NL, "fra", NL, FENCE, NL>>

\* no "Response body recorded for playback" section
DocBad ==
  <<H2, "Interaction", SP, SLASH, "pr", SLASH, "gbr", XML, NL,
    HH, NL, FENCE, NL, "Date", COLON, "gzip", NL, FENCE, NL>>

TestFiles ==
  [p \in Paths |-> CASE p = "a.md"   -> DocA
                     [] p = "b.md"   -> DocB
                     [] p = "bad.md" -> DocBad
                     [] OTHER        -> NoFile]

----------------------------------------------------------------------------
(* State *)

\* thread id of the listener thread; the test threads are 1..NumTests
LISTENER == 0

NotSet == [tag |-> "NotSet"]
Playback(playback_data) == [tag |-> "Playback", data |-> playback_data]
Recording(path) == [tag |-> "Recording", path |-> path]

None == <<>>
Some(v) == <<v>>

\* found: the ServirtiumServer fields as the call found them when it took the
\* SERVIRTIUM_INSTANCE guard
NoArgs == [mode |-> "none", path |-> "none", domain |-> "none", found |-> None]

\* no request line written (yet); what read_line yields at the end of the stream
NoRequest == <<>>

\* first lines of the requests the clients send
Requests ==
  { <<"GET", SP, SLASH, "pr", SLASH, "gbr", XML>>,
    <<"POST", SP, SLASH, "other">> }

\* no call of get_average_annual_rainfall in progress
NoCall == [at |-> "none"]

NoReply == [kind |-> "none"]
Refused == [kind |-> "refused"]
Closed == [kind |-> "closed"]
Response(bytes) == [kind |-> "response", bytes |-> bytes]

\* the positions of a test thread at which it owns the guard prepare_for_test returned
Holding == {"in_test", "connected", "waiting"}

\* the positions of the listener thread at which its socket is bound
Bound == {"accept", "locking", "reading"}

InitState(fs) ==
  /\ pc = [t \in Tests |-> "idle"]
  /\ args = [t \in Tests |-> NoArgs]
  /\ err = [t \in Tests |-> "none"]
  /\ reply = [t \in Tests |-> NoReply]
  /\ reads = [t \in Tests |-> {}]
  /\ testLock = {}
  /\ testPoisoned = FALSE
  /\ stateLock = {}
  /\ statePoisoned = FALSE
  /\ interaction_mode = NotSet
  /\ domain_name = None
  /\ once = "incomplete"
  /\ listeners_started = 0
  /\ lpc = "not_started"
  /\ backlog = <<>>
  /\ cur = <<>>
  /\ files = fs
  /\ request = [t \in Tests |-> NoRequest]
  /\ served = {}
  /\ hung_up = {}
  /\ client = NoCall

Init == InitState(TestFiles)

----------------------------------------------------------------------------
(* prepare_for_test, one action per blocking point *)

\* a guard that lets every caller run the closure
OnceRunsEveryTime == TRUE

\* Once::call_once runs its closure only the first time
OnceRuns == once = "incomplete"

\* a lock that never blocks
TestLockNeverBlocks == TRUE

\* Mutex::lock blocks while another thread holds the mutex
TestLockFree == testLock = {}

StateLockFree == stateLock = {}

\* recovering the guard from the PoisonError (into_inner)
LockResultRecovered(poisoned) == [ok |-> TRUE, value |-> "guard"]

\* Mutex::lock returns Err(PoisonError) when the poison flag is set
LockResult(poisoned) == IF poisoned THEN Err("PoisonedLock") ELSE Ok("guard")

\* the guard is dropped when prepare_for_test returns
GuardDroppedOnReturn(t) == {}

\* Ok(test_lock): the guard moves to the caller, TEST_LOCK stays locked
ReturnedGuard(t) == {t}

\* a mode that is installed only over NotSet
NewInteractionModeIfUnset(mode, script_path, loaded) ==
  IF interaction_mode.tag # "NotSet" THEN interaction_mode
  ELSE IF mode = "Playback" THEN [tag |-> "Playback", data |-> loaded.value]
  ELSE [tag |-> "Recording", path |-> script_path]

\* the value assigned to server_lock.interaction_mode
NewInteractionMode(mode, script_path, loaded) ==
  IF mode = "Playback" THEN Playback(loaded.value) ELSE Recording(script_path)

\* server_lock.domain_name = Some(domain_name.into())
NewDomainName(d) == Some(d)

\* the early return of the ? operator drops the guards the frame holds
Fail(t, e) ==
  /\ pc' = [pc EXCEPT ![t] = "failed"]
  /\ err' = [err EXCEPT ![t] = e]
  /\ args' = [args EXCEPT ![t] = NoArgs]
  /\ testLock' = testLock \ {t}
  /\ stateLock' = stateLock \ {t}

\* line 63: Self::start()
Start(t) ==
  /\ pc[t] = "idle"
  /\ pc' = [pc EXCEPT ![t] = "lock_test"]
  /\ reads' = [reads EXCEPT ![t] = {}]
  /\ IF OnceRuns /\ listeners_started < MaxSpawns
     THEN /\ once' = "complete"
          /\ listeners_started' = listeners_started + 1
          /\ lpc' = "spawned"
     ELSE UNCHANGED <<once, listeners_started, lpc>>
  /\ UNCHANGED <<args, err, reply, testLock, testPoisoned, stateLock,
                 statePoisoned, interaction_mode, domain_name, backlog, cur,
                 files, request, served, hung_up, client>>

\* line 65: TEST_LOCK.lock()?  The arguments of the call are not read before
\* line 68, so they are drawn here.
LockTest(t, mode, script_path, d) ==
  /\ pc[t] = "lock_test"
  /\ TestLockFree
  /\ IF LockResult(testPoisoned).ok
     THEN /\ testLock' = {t}
          /\ args' = [args EXCEPT ![t] =
                        [mode |-> mode, path |-> script_path, domain |-> d,
                         found |-> None]]
          /\ pc' = [pc EXCEPT ![t] = "lock_state"]
          /\ UNCHANGED <<err, stateLock>>
     ELSE Fail(t, LockResult(testPoisoned).error)
  /\ UNCHANGED <<reply, reads, testPoisoned, statePoisoned, interaction_mode,
                 domain_name, once, listeners_started, lpc, backlog, cur, files,
                 request, served, hung_up, client>>

\* lines 67-68: SERVIRTIUM_INSTANCE.lock()? and the assignment of domain_name
LockState(t) ==
  /\ pc[t] = "lock_state"
  /\ StateLockFree
  /\ IF LockResult(statePoisoned).ok
     THEN /\ stateLock' = {t}
          /\ domain_name' = NewDomainName(args[t].domain)
          /\ pc' = [pc EXCEPT ![t] = "install"]
          /\ args' = [args EXCEPT ![t].found =
                        Some([interaction_mode |-> interaction_mode,
                              domain_name |-> domain_name])]
          /\ UNCHANGED <<err, testLock>>
     ELSE /\ Fail(t, LockResult(statePoisoned).error)
          /\ UNCHANGED domain_name
  /\ UNCHANGED <<reply, reads, testPoisoned, statePoisoned, interaction_mode,
                 once, listeners_started, lpc, backlog, cur, files, request,
                 served, hung_up, client>>

\* lines 69-79: load the fixture or take the path, assign interaction_mode, return
Install(t) ==
  /\ pc[t] = "install"
  /\ LET a == args[t]
         loaded == IF a.mode = "Playback"
                   THEN load_playback_file(files[a.path])
                   ELSE Ok(a.path)
     IN /\ reads' = [reads EXCEPT ![t] =
                       IF a.mode = "Playback" THEN @ \cup {a.path} ELSE @]
        /\ IF loaded.ok
           THEN /\ interaction_mode' = NewInteractionMode(a.mode, a.path, loaded)
                /\ stateLock' = stateLock \ {t}
                /\ testLock' = ReturnedGuard(t)
                /\ pc' = [pc EXCEPT ![t] = "in_test"]
                /\ served' = {}
                /\ args' = [args EXCEPT ![t].found = None]
                /\ UNCHANGED err
           ELSE /\ Fail(t, loaded.error)
                /\ UNCHANGED <<interaction_mode, served>>
  /\ UNCHANGED <<reply, testPoisoned, statePoisoned, domain_name, once,
                 listeners_started, lpc, backlog, cur, files, request, hung_up,
                 client>>

\* the caller of a failed prepare_for_test goes on to its next call
TestEnd(t) ==
  /\ pc[t] = "failed"
  /\ pc' = [pc EXCEPT ![t] = "idle"]
  /\ err' = [err EXCEPT ![t] = "none"]
  /\ UNCHANGED <<args, reply, reads, testLock, testPoisoned, stateLock,
                 statePoisoned, interaction_mode, domain_name, once,
                 listeners_started, lpc, backlog, cur, files, request, served,
                 hung_up, client>>

----------------------------------------------------------------------------
(* The body of a test: the HTTP client under test and the end of the test  *)

\* the connections the listener has not finished with
Pending ==
  {backlog[i] : i \in 1..Len(backlog)} \cup {cur[i] : i \in 1..Len(cur)}

\* the blocking client opens a connection to localhost:61417
Connect(t) ==
  /\ pc[t] = "in_test"
  /\ t \notin Pending
  /\ IF lpc \in Bound
     THEN /\ backlog' = Append(backlog, t)
          /\ reply' = [reply EXCEPT ![t] = NoReply]
          /\ pc' = [pc EXCEPT ![t] = "connected"]
     ELSE /\ reply' = [reply EXCEPT ![t] = Refused]
          /\ UNCHANGED <<backlog, pc>>
  /\ UNCHANGED <<args, err, reads, testLock, testPoisoned, stateLock,
                 statePoisoned, interaction_mode, domain_name, once,
                 listeners_started, lpc, cur, files, request, served, hung_up,
                 client>>

\* the client writes its request, whose first line read_first_line waits for
SendRequest(t, first_line) ==
  /\ pc[t] = "connected"
  /\ pc' = [pc EXCEPT ![t] = "waiting"]
  /\ request' = [request EXCEPT ![t] = first_line]
  /\ UNCHANGED <<args, err, reply, reads, testLock, testPoisoned, stateLock,
                 statePoisoned, interaction_mode, domain_name, once,
                 listeners_started, lpc, backlog, cur, files, served, hung_up,
                 client>>

\* send() returns once the response has arrived or the connection was closed
Receive(t) ==
  /\ pc[t] = "waiting"
  /\ reply[t] # NoReply
  /\ pc' = [pc EXCEPT ![t] = "in_test"]
  /\ request' = [request EXCEPT ![t] = NoRequest]
  /\ UNCHANGED <<args, err, reply, reads, testLock, testPoisoned, stateLock,
                 statePoisoned, interaction_mode, domain_name, once,
                 listeners_started, lpc, backlog, cur, files, served, hung_up,
                 client>>

\* the test ends and the MutexGuard it got goes out of scope
Release(t) ==
  /\ pc[t] = "in_test"
  /\ testLock' = testLock \ {t}
  /\ pc' = [pc EXCEPT ![t] = "idle"]
  /\ args' = [args EXCEPT ![t] = NoArgs]
  /\ reply' = [reply EXCEPT ![t] = NoReply]
  /\ UNCHANGED <<err, reads, testPoisoned, stateLock, statePoisoned,
                 interaction_mode, domain_name, once, listeners_started, lpc,
                 backlog, cur, files, request, served, hung_up, client>>

\* the test panics (a failed assertion): the guard is dropped while unwinding,
\* which sets the poison flag of TEST_LOCK
TestPanic(t) ==
  /\ pc[t] = "in_test"
  /\ testLock' = testLock \ {t}
  /\ testPoisoned' = TRUE
  /\ pc' = [pc EXCEPT ![t] = "idle"]
  /\ args' = [args EXCEPT ![t] = NoArgs]
  /\ reply' = [reply EXCEPT ![t] = NoReply]
  /\ UNCHANGED <<err, reads, stateLock, statePoisoned, interaction_mode,
                 domain_name, once, listeners_started, lpc, backlog, cur, files,
                 request, served, hung_up, client>>

----------------------------------------------------------------------------
(* The listener thread *)

\* a panic of the listener thread drops the TcpListener and the TcpStream:
\* every connection it has not answered is closed
ListenerPanics(position) ==
  /\ lpc' = position
  /\ reply' = [t \in Tests |->
                 IF t \in Pending \ hung_up THEN Closed ELSE reply[t]]
  /\ request' = [t \in Tests |->
                   IF t \in Pending \cap hung_up THEN NoRequest ELSE request[t]]
  /\ hung_up' = hung_up \ Pending
  /\ backlog' = <<>>
  /\ cur' = <<>>

\* line 85: TcpListener::bind succeeds
BindOk ==
  /\ lpc = "spawned"
  /\ lpc' = "accept"
  /\ UNCHANGED <<pc, args, err, reply, reads, testLock, testPoisoned,
                 stateLock, statePoisoned, interaction_mode, domain_name, once,
                 listeners_started, backlog, cur, files, request, served,
                 hung_up, client>>

\* line 85: TcpListener::bind fails (the port is taken) and unwrap panics
BindFails ==
  /\ lpc = "spawned"
  /\ ListenerPanics("bind_failed")
  /\ UNCHANGED <<pc, args, err, reads, testLock, testPoisoned, stateLock,
                 statePoisoned, interaction_mode, domain_name, once,
                 listeners_started, files, served, client>>

\* line 87: listener.incoming() yields the next connection
Accept ==
  /\ lpc = "accept"
  /\ backlog # <<>>
  /\ cur' = <<Head(backlog)>>
  /\ backlog' = Tail(backlog)
  /\ lpc' = "locking"
  /\ UNCHANGED <<pc, args, err, reply, reads, testLock, testPoisoned,
                 stateLock, statePoisoned, interaction_mode, domain_name, once,
                 listeners_started, files, request, served, hung_up, client>>

\* a match whose NotSet arm is not empty but unimplemented, like the Recording arm
MatchArmUnsetUnimplemented(mode) ==
  IF mode.tag = "NotSet" THEN "Recording" ELSE mode.tag

\* a match whose Recording arm does nothing, like the NotSet arm
MatchArmRecordDoesNothing(mode) ==
  IF mode.tag = "Recording" THEN "NotSet" ELSE mode.tag

\* lines 90-98: the arm of the match that the mode selects
MatchArm(mode) == mode.tag

\* the stream is dropped unanswered: its client, if still there, sees it closed
DropStream(c) ==
  /\ reply' = [reply EXCEPT ![c] = IF c \in hung_up THEN @ ELSE Closed]
  /\ request' = [request EXCEPT ![c] = IF c \in hung_up THEN NoRequest ELSE @]
  /\ hung_up' = hung_up \ {c}

\* lines 89-98: SERVIRTIUM_INSTANCE.lock().unwrap() and the match on the mode
Dispatch ==
  /\ lpc = "locking"
  /\ StateLockFree
  /\ IF ~LockResult(statePoisoned).ok
     THEN /\ ListenerPanics("panicked")
          /\ UNCHANGED <<stateLock, statePoisoned>>
     ELSE CASE MatchArm(interaction_mode) = "Playback" ->
                 \* handle_playback begins: read_first_line, the lock is held
                 /\ stateLock' = {LISTENER}
                 /\ lpc' = "reading"
                 /\ UNCHANGED <<statePoisoned, reply, backlog, cur, request,
                                hung_up>>
            [] MatchArm(interaction_mode) = "Recording" ->
                 \* handle_record: todo!() panics while the guard is alive
                 /\ ListenerPanics("panicked")
                 /\ statePoisoned' = TRUE
                 /\ UNCHANGED stateLock
            [] OTHER ->
                 \* NotSet: nothing is written, the stream and the guard are dropped
                 /\ DropStream(cur[1])
                 /\ cur' = <<>>
                 /\ lpc' = "accept"
                 /\ UNCHANGED <<stateLock, statePoisoned, backlog>>
  /\ UNCHANGED <<pc, args, err, reads, testLock, testPoisoned,
                 interaction_mode, domain_name, once, listeners_started, files,
                 served, client>>

\* a read_line that would return only for a line, never for the end of the
\* stream
FirstLineSent(c) == pc[c] \in {"waiting", "stray_waiting"}

\* read_line returns: the client has written its first line, or has closed
\* its end of the connection
FirstLineArrived(c) == pc[c] \in {"waiting", "stray_waiting"} \/ c \in hung_up

\* lines 107-132: the first line has arrived; the response is written and
\* flushed, handle_playback returns and the guard is dropped
Respond ==
  /\ lpc = "reading"
  /\ FirstLineArrived(cur[1])
  /\ LET c == cur[1]
         bytes == handle_playback(request[c], interaction_mode.data)
     IN /\ reply' = [reply EXCEPT ![c] =
                       IF c \in hung_up THEN @ ELSE Response(bytes)]
        /\ request' = [request EXCEPT ![c] =
                         IF c \in hung_up THEN NoRequest ELSE @]
        /\ served' = served \cup {<<request[c], bytes>>}
        /\ hung_up' = hung_up \ {c}
  /\ stateLock' = stateLock \ {LISTENER}
  /\ cur' = <<>>
  /\ lpc' = "accept"
  /\ UNCHANGED <<pc, args, err, reads, testLock, testPoisoned, statePoisoned,
                 interaction_mode, domain_name, once, listeners_started,
                 backlog, files, client>>

----------------------------------------------------------------------------
(* Specifications *)

TestStep(t) ==
  \/ Start(t)
  \/ \E mode \in Modes, script_path \in Paths, d \in Domains :
       LockTest(t, mode, script_path, d)
  \/ LockState(t)
  \/ Install(t)
  \/ TestEnd(t)
  \/ Connect(t)
  \/ \E first_line \in Requests : SendRequest(t, first_line)
  \/ Receive(t)
  \/ Release(t)
  \/ TestPanic(t)

ListenerStep == BindOk \/ BindFails \/ Accept \/ Dispatch \/ Respond

Next == (\E t \in Tests : TestStep(t)) \/ ListenerStep

Spec == Init /\ [][Next]_vars

----------------------------------------------------------------------------
(* Clients outside the protocol of the tests: a caller that ignores the    *)
(* Err of prepare_for_test and sends requests without the guard, and a     *)
(* client that gives up on a request and closes its connection.            *)

\* a request made although prepare_for_test failed
StrayConnect(t) ==
  /\ pc[t] = "failed"
  /\ t \notin Pending
  /\ lpc \in Bound
  /\ backlog' = Append(backlog, t)
  /\ reply' = [reply EXCEPT ![t] = NoReply]
  /\ pc' = [pc EXCEPT ![t] = "stray_connected"]
  /\ UNCHANGED <<args, err, reads, testLock, testPoisoned, stateLock,
                 statePoisoned, interaction_mode, domain_name, once,
                 listeners_started, lpc, cur, files, request, served, hung_up,
                 client>>

StraySend(t, first_line) ==
  /\ pc[t] = "stray_connected"
  /\ pc' = [pc EXCEPT ![t] = "stray_waiting"]
  /\ request' = [request EXCEPT ![t] = first_line]
  /\ UNCHANGED <<args, err, reply, reads, testLock, testPoisoned, stateLock,
                 statePoisoned, interaction_mode, domain_name, once,
                 listeners_started, lpc, backlog, cur, files, served, hung_up,
                 client>>

StrayReceive(t) ==
  /\ pc[t] = "stray_waiting"
  /\ reply[t] # NoReply
  /\ pc' = [pc EXCEPT ![t] = "failed"]
  /\ reply' = [reply EXCEPT ![t] = NoReply]
  /\ request' = [request EXCEPT ![t] = NoRequest]
  /\ UNCHANGED <<args, err, reads, testLock, testPoisoned, stateLock,
                 statePoisoned, interaction_mode, domain_name, once,
                 listeners_started, lpc, backlog, cur, files, served, hung_up,
                 client>>

\* send() gives up before an answer has arrived and the connection is closed
\* from the client's side; the test goes on
HangUp(t) ==
  /\ pc[t] \in {"connected", "waiting"}
  /\ reply[t] = NoReply
  /\ hung_up' = hung_up \cup {t}
  /\ pc' = [pc EXCEPT ![t] = "in_test"]
  /\ UNCHANGED <<args, err, reply, reads, testLock, testPoisoned, stateLock,
                 statePoisoned, interaction_mode, domain_name, once,
                 listeners_started, lpc, backlog, cur, files, request, served,
                 client>>

\* lines 128-131: the write or the flush to a connection that its client has
\* closed returns Err, and expect panics while the guard is alive
RespondFails ==
  /\ lpc = "reading"
  /\ FirstLineArrived(cur[1])
  /\ cur[1] \in hung_up
  /\ ListenerPanics("panicked")
  /\ statePoisoned' = TRUE
  /\ stateLock' = stateLock \ {LISTENER}
  /\ UNCHANGED <<pc, args, err, reads, testLock, testPoisoned,
                 interaction_mode, domain_name, once, listeners_started, files,
                 served, client>>

\* the tests replay a.md or fail on bad.md, and their clients send one request
EnvPaths == {"a.md", "bad.md"}

EnvRequest == <<"GET", SP, SLASH, "pr", SLASH, "gbr", XML>>

EnvStep(t) ==
  \/ Start(t)
  \/ \E script_path \in EnvPaths : LockTest(t, "Playback", script_path, "d1")
  \/ LockState(t)
  \/ Install(t)
  \/ TestEnd(t)
  \/ Connect(t)
  \/ SendRequest(t, EnvRequest)
  \/ Receive(t)
  \/ Release(t)
  \/ StrayConnect(t)
  \/ StraySend(t, EnvRequest)
  \/ StrayReceive(t)
  \/ HangUp(t)

NextEnv ==
  \/ \E t \in Tests : EnvStep(t)
  \/ BindOk
  \/ Accept
  \/ Dispatch
  \/ Respond
  \/ RespondFails

SpecEnv == Init /\ [][NextEnv]_vars

----------------------------------------------------------------------------
(* A specification with fairness, for the progress of prepare_for_test.    *)
(* The locks are taken to be fair (a thread that can take a lock again and *)
(* again does take it), every thread that can run does run, a test that    *)
(* owns the TEST_LOCK guard ends, and a client that has connected sends    *)
(* its first line or closes the connection.                                *)

LiveStep(t) ==
  \/ Start(t)
  \/ \E mode \in Modes, script_path \in EnvPaths :
       LockTest(t, mode, script_path, "d1")
  \/ LockState(t)
  \/ Install(t)
  \/ TestEnd(t)
  \/ Connect(t)
  \/ SendRequest(t, EnvRequest)
  \/ Receive(t)
  \/ HangUp(t)
  \/ Release(t)
  \/ TestPanic(t)

NextLive ==
  \/ \E t \in Tests : LiveStep(t)
  \/ ListenerStep
  \/ RespondFails

\* the step of Install(t), told by the positions alone: Install(t) is enabled
\* exactly at "install" and is the only step that leaves it, for one of these
\* two positions
InstallReturns(t) ==
  /\ pc[t] = "install"
  /\ pc' \in {[pc EXCEPT ![t] = r] : r \in {"in_test", "failed"}}

Fairness ==
  /\ \A t \in Tests :
       /\ SF_vars(\E mode \in Modes, script_path \in EnvPaths :
                    LockTest(t, mode, script_path, "d1"))
       /\ WF_vars(LockState(t))
       /\ WF_pc(InstallReturns(t))
       /\ WF_vars(SendRequest(t, EnvRequest) \/ HangUp(t))
       /\ WF_vars(Receive(t))
       /\ SF_vars(Release(t) \/ TestPanic(t))
  /\ WF_vars(BindOk \/ BindFails)
  /\ WF_vars(Accept)
  /\ WF_vars(Dispatch)
  /\ WF_vars(Respond \/ RespondFails)

SpecLive == Init /\ [][NextLive]_vars /\ Fairness

----------------------------------------------------------------------------
(* A second specification for the codec and the Playback branch: one test  *)
(* replays a fixture whose header block is drawn from the header lines     *)
(* below.                                                                  *)

CodecLines ==
  { <<TE, COLON, CHUNKED>>,
    <<TE, COLON, "gzip">>,
    <<"Date", COLON, CHUNKED>>,
    <<"transfer-encoding", COLON, CHUNKED>>,
    <<TE, COLON, SP, CHUNKED, SP>>,
    <<"1", TE, COLON, CHUNKED>>,
    <<"gzip">> }

RECURSIVE JoinLines(_)
JoinLines(ls) ==
  IF ls = <<>> THEN <<>> ELSE Head(ls) \o <<NL>> \o JoinLines(Tail(ls))

CodecBlocks ==
  UNION {[1..n -> CodecLines] : n \in 0..MaxHeaderLines}

CodecDoc(block) ==
  <<H2, "Interaction", SP, SLASH, "pr", SLASH, "gbr", XML, NL,
    HH, NL, FENCE, NL>> \o JoinLines(block) \o
  <<FENCE, NL, BH, NL, FENCE, NL, "gbr", NL, FENCE, NL>>

CodecFiles(block) ==
  [p \in Paths |-> IF p = "a.md" THEN CodecDoc(block) ELSE NoFile]

InitCodec == \E block \in CodecBlocks : InitState(CodecFiles(block))

NextCodec ==
  \/ Start(1)
  \/ \E script_path \in Paths : LockTest(1, "Playback", script_path, "d1")
  \/ LockState(1)
  \/ Install(1)
  \/ TestEnd(1)
  \/ Connect(1)
  \/ \E first_line \in Requests : SendRequest(1, first_line)
  \/ Receive(1)
  \/ Release(1)
  \/ BindOk
  \/ Accept
  \/ Dispatch
  \/ Respond

SpecCodec == InitCodec /\ [][NextCodec]_vars

----------------------------------------------------------------------------
(* A specification for load_playback_file: one test loads a document made  *)
(* of up to MaxSegments of the segments below, in any order.               *)

\* a level-2 heading with a uri
SegHeading == <<H2, "Interaction", SP, SLASH, "pr", SLASH, "fra", XML, NL>>

\* a line of prose that mentions a uri
SegText == <<"see", SP, SLASH, "fra", XML, NL>>

SegHH == <<HH, NL>>

SegBH == <<BH, NL>>

\* a fenced block
SegFence == <<FENCE, NL, "Date", COLON, "gzip", NL, FENCE, NL>>

\* a whole recorded interaction
SegInteraction == DocA

Segments == {SegHeading, SegText, SegHH, SegBH, SegFence, SegInteraction}

DecodeDocs ==
  {Join(ss) : ss \in UNION {[1..n -> Segments] : n \in 0..MaxSegments}}

DecodeFiles(doc) == [p \in Paths |-> IF p = "a.md" THEN doc ELSE NoFile]

InitDecode == \E doc \in DecodeDocs : InitState(DecodeFiles(doc))

NextDecode ==
  \/ Start(1)
  \/ LockTest(1, "Playback", "a.md", "d1")
  \/ LockState(1)
  \/ Install(1)
  \/ TestEnd(1)
  \/ Release(1)

SpecDecode == InitDecode /\ [][NextDecode]_vars

----------------------------------------------------------------------------
(* The client under test (src/src/climate_api_client.rs):                  *)
(* get_average_annual_rainfall checks the years before it sends anything.  *)

\* the variables of the server and of the tests
serverVars == <<pc, args, err, reply, reads, testLock, testPoisoned, stateLock,
                statePoisoned, interaction_mode, domain_name, once,
                listeners_started, lpc, backlog, cur, files, request, served,
                hung_up>>

DEFAULT_DOMAIN_NAME == "http://climatedataapi.worldbank.org/"

\* the domain name the playback tests build their client with
PLAYBACK_DOMAIN_NAME == "http://localhost:61417"

ClientDomains == {DEFAULT_DOMAIN_NAME, PLAYBACK_DOMAIN_NAME}

\* from_year: the years around the supported range and the ends of u16
FromYears == (1900..2100) \cup {0, 19, 20, 65516, 65517, 65535}

\* to_year: the years around from_year + 19, in u16, and two fixed years
ToYears(from_year) ==
  {(from_year + k) % 65536 : k \in 17..21} \cup {from_year, 1995}

\* u16 addition, wrapping
U16Add(a, b) == (a + b) % 65536

\* Error::DateRangeNotSupported(from_year, to_year)
DateRangeNotSupported(from_year, to_year) ==
  [kind |-> "DateRangeNotSupported", from_year |-> from_year,
   to_year |-> to_year]

\* the call has not returned at line 100: the request went out
Requested == [kind |-> "requested"]

\* a check that leaves out the divisibility by 20
check_years_any_start(from_year, to_year) ==
  IF from_year < 1920 \/ from_year > 2080 \/ to_year # U16Add(from_year, 19)
  THEN Err(DateRangeNotSupported(from_year, to_year))
  ELSE Ok("unit")

\* the u16 sum a + b does not fit in 16 bits
U16Overflows(a, b) == a + b > 65535

\* an or that evaluates all four of its operands, as | does
SumEvaluatedAlways(from_year) == TRUE

\* line 139: || evaluates its fourth operand, and with it from_year + 19, only
\* when the three operands before it are false
SumEvaluated(from_year) ==
  ~(from_year < 1920 \/ from_year > 2080 \/ from_year % 20 # 0)

\* || evaluates from_year + 19 only when the three checks before it are false
check_years(from_year, to_year) ==
  IF ~SumEvaluated(from_year)
  THEN Err(DateRangeNotSupported(from_year, to_year))
  ELSE IF to_year # U16Add(from_year, 19)
       THEN Err(DateRangeNotSupported(from_year, to_year))
       ELSE Ok("unit")

construct_get_average_annual_rainfall_url(domain, from_year, to_year, country_iso) ==
  <<domain, "/climateweb/rest/v1/country/annualavg/pr/", from_year, "/",
    to_year, "/", country_iso, ".xml">>

\* line 94: the call
CallRainfall(from_year, to_year, domain) ==
  /\ client = NoCall
  /\ client' = [at |-> "check_years", from_year |-> from_year,
                 to_year |-> to_year, domain_name |-> domain,
                 sent |-> <<>>, result |-> [kind |-> "none"],
                 summed |-> FALSE]
  /\ UNCHANGED serverVars

\* line 100: Self::check_years(from_year, to_year)?  A u16 sum that does not
\* fit panics in a build with overflow checks and wraps in a build without
\* them.
CheckYears ==
  /\ client.at = "check_years"
  /\ LET f == client.from_year
         checked == check_years(f, client.to_year)
         summed == SumEvaluated(f)
         returns == IF checked.ok
                    THEN [client EXCEPT !.at = "send", !.summed = summed]
                    ELSE [client EXCEPT !.at = "returned",
                                        !.result = checked.error,
                                        !.summed = summed]
         panics == [client EXCEPT !.at = "panicked", !.summed = summed]
     IN client' \in IF summed /\ U16Overflows(f, 19)
                     THEN {returns, panics}
                     ELSE {returns}
  /\ UNCHANGED serverVars

\* lines 102-104: the url is built and the GET request is sent; what comes
\* back is the matter of the server
SendGet ==
  /\ client.at = "send"
  /\ client' = [client EXCEPT
                  !.at = "returned",
                  !.sent = <<construct_get_average_annual_rainfall_url(
                               client.domain_name, client.from_year,
                               client.to_year, "gbr")>>,
                  !.result = Requested]
  /\ UNCHANGED serverVars

\* the call returns
ReturnRainfall ==
  /\ client.at = "returned"
  /\ client' = NoCall
  /\ UNCHANGED serverVars

NextClient ==
  \/ \E from_year \in FromYears, domain \in ClientDomains :
       \E to_year \in ToYears(from_year) :
         CallRainfall(from_year, to_year, domain)
  \/ CheckYears
  \/ SendGet
  \/ ReturnRainfall

SpecClient == Init /\ [][NextClient]_vars

----------------------------------------------------------------------------
(* The client's check of the years over the whole of u16: from_year is     *)
(* every 16-bit value; to_year is the year the check asks for, the same    *)
(* year, or an end of u16.                                                 *)

YearsTo(from_year) == {U16Add(from_year, 19), from_year, 0, 65535}

NextYears ==
  \/ /\ client = NoCall
     /\ \E from_year \in 0..65535 :
          \E to_year \in YearsTo(from_year) :
            CallRainfall(from_year, to_year, DEFAULT_DOMAIN_NAME)
  \/ CheckYears
  \/ SendGet
  \/ ReturnRainfall

SpecYears == Init /\ [][NextYears]_vars

----------------------------------------------------------------------------
(* Properties *)

\* the record the codec yields for a path, written from the capture groups
DecodedRecord(path) ==
  LET c == MarkdownCaptures(files[path])
  IN [headers       |-> parse_headers(c.headers_part),
      response_body |-> c.body_part,
      uri           |-> c.uri]

Decodable(path) == files[path] # NoFile /\ MarkdownCaptures(files[path]).matched

\* C1: at most one test thread at a time is between a successful return of
\* prepare_for_test and the release of the guard it returned.
C1_AtMostOneHolder == Cardinality({t \in Tests : pc[t] \in Holding}) <= 1

\* one test owns the guard while another is blocked in TEST_LOCK.lock()
C1_Witness ==
  \E t, u \in Tests : t # u /\ pc[t] \in Holding /\ pc[u] = "lock_test"

\* C2: a response the listener writes to a test's connection is built from
\* the fixture that this test installed, and the test holds TEST_LOCK then.
C2_OwnFixtureReplayed ==
  \A t \in Tests :
    reply[t].kind = "response" =>
      /\ testLock = {t}
      /\ args[t].mode = "Playback"
      /\ Decodable(args[t].path)
      /\ reply[t].bytes = PlaybackResponse(DecodedRecord(args[t].path))

\* a test replays b.md while another test waits for TEST_LOCK
C2_Witness ==
  \E t, u \in Tests :
    /\ t # u
    /\ reply[t].kind = "response"
    /\ args[t].path = "b.md"
    /\ pc[u] = "lock_test"

\* C3: the number of listener threads ever started is 0 or 1.
C3_ListenerStartedAtMostOnce ==
  /\ listeners_started \in {0, 1}
  /\ listeners_started = 0 <=> lpc = "not_started"

\* one call failed, another succeeded, a single listener was started
C3_Witness ==
  \E t, u \in Tests :
    /\ pc[t] = "failed"
    /\ pc[u] \in Holding
    /\ listeners_started = 1

\* C4: once the listener runs its accept loop it keeps running it.
C4_ListenerNeverStops == [][(lpc \in Bound) => (lpc' \in Bound)]_vars

\* C5: when prepare_for_test has returned Ok the listener is bound and accepting.
C5_ListenerBoundOnReturn ==
  \A t \in Tests : pc[t] \in Holding => lpc \in Bound

\* C6: after prepare_for_test returned Ok the state is the one the call asked
\* for: Playback(record decoded from path) or Recording(path), and the domain
\* name of the call; a Record call read no file.
C6_InstallReplacesState ==
  \A t \in Tests :
    pc[t] \in Holding =>
      /\ domain_name = <<args[t].domain>>
      /\ args[t].mode = "Playback" =>
           /\ Decodable(args[t].path)
           /\ interaction_mode =
                [tag |-> "Playback", data |-> DecodedRecord(args[t].path)]
           /\ reads[t] = {args[t].path}
      /\ args[t].mode = "Record" =>
           /\ interaction_mode = [tag |-> "Recording", path |-> args[t].path]
           /\ reads[t] = {}

\* a Record call returned Ok after another test had installed the fixture a.md
C6_Witness ==
  \E t, u \in Tests :
    /\ t # u
    /\ pc[t] = "in_test"
    /\ args[t].mode = "Record"
    /\ args[t].domain = "d2"
    /\ reads[u] = {"a.md"}
    /\ pc[u] = "idle"

\* C7: a Playback call whose fixture cannot be read or decoded returns
\* IoError or InvalidMarkdownFormat, holds no lock afterwards, leaves
\* TEST_LOCK free and unpoisoned, and installs nothing.
C7_FailedLoadSurfaced ==
  [][\A t \in Tests :
       (/\ pc[t] = "install"
        /\ args[t].mode = "Playback"
        /\ ~Decodable(args[t].path)
        /\ pc'[t] # "install")
       => /\ pc'[t] = "failed"
          /\ err'[t] = IF files[args[t].path] = NoFile
                       THEN "IoError" ELSE "InvalidMarkdownFormat"
          /\ testLock' = {}
          /\ stateLock' = {}
          /\ testPoisoned' = testPoisoned
          /\ interaction_mode' = interaction_mode]_vars

\* a call failed on an undecodable fixture and the next caller got the lock
C7_Witness ==
  \E t, u \in Tests :
    /\ pc[t] = "failed"
    /\ err[t] = "InvalidMarkdownFormat"
    /\ pc[u] \in Holding

C9_NoGuardAfterBindFailure ==
  [][lpc = "bind_failed" =>
       \A t \in Tests : pc[t] = "install" => pc'[t] # "in_test"]_vars

\* the header lines of a response: the lines after the status line, up to the
\* empty line
RECURSIVE LinesToBlank(_)
LinesToBlank(w) ==
  LET n == FirstAfter(w, 0, CRLF)
  IN IF n <= 1 THEN <<>>
     ELSE <<SubSeq(w, 1, n - 1)>> \o LinesToBlank(SubSeq(w, n + 1, Len(w)))

WireHeaderLines(w) == LinesToBlank(SubSeq(w, 3, Len(w)))

IsChunkedPair(h) == h[1] = <<TE>> /\ h[2] = <<CHUNKED>>

NotChunkedPair(h) == ~IsChunkedPair(h)

\* C10: the header lines of a Playback response contain no
\* "Transfer-Encoding: chunked" line, and they are the other pairs of the
\* record, in order.
C10_ChunkedNeverOnWire ==
  \A t \in Tests :
    reply[t].kind = "response" =>
      LET lines == WireHeaderLines(reply[t].bytes)
          kept  == SelectSeq(interaction_mode.data.headers, NotChunkedPair)
      IN /\ reply[t].bytes[1] = STATUS_LINE
         /\ reply[t].bytes[2] = CRLF
         /\ \A i \in 1..Len(lines) : lines[i] # <<TE, COLON, CHUNKED>>
         /\ Len(lines) = Len(kept)
         /\ \A i \in 1..Len(kept) :
              lines[i] = kept[i][1] \o <<COLON>> \o kept[i][2]

\* a fixture with a chunked pair and another Transfer-Encoding pair was replayed
C10_Witness ==
  \E t \in Tests :
    /\ reply[t].kind = "response"
    /\ \E i, j \in 1..Len(interaction_mode.data.headers) :
         /\ IsChunkedPair(interaction_mode.data.headers[i])
         /\ interaction_mode.data.headers[j] = << <<TE>>, <<"gzip">> >>

\* C11: when the record has no header pair, or every pair of it is
\* "Transfer-Encoding: chunked", the response is exactly the status line, the
\* empty line and the body.
C11_NoHeadersBareResponse ==
  \A t \in Tests :
    reply[t].kind = "response" =>
      LET hs == interaction_mode.data.headers
      IN (\A i \in 1..Len(hs) : IsChunkedPair(hs[i])) =>
           reply[t].bytes =
             <<STATUS_LINE, CRLF, CRLF>> \o interaction_mode.data.response_body

\* a record whose pairs are all "Transfer-Encoding: chunked" was replayed
C11_Witness ==
  \E t \in Tests :
    /\ reply[t].kind = "response"
    /\ interaction_mode.data.headers # <<>>
    /\ \A i \in 1..Len(interaction_mode.data.headers) :
         IsChunkedPair(interaction_mode.data.headers[i])

\* the bytes of the header section: one "Name: Value" line per pair, first
\* pair first
RECURSIVE WireOf(_)
WireOf(hs) ==
  IF hs = <<>> THEN <<>>
  ELSE LET n == Len(hs)
       IN WireOf(SubSeq(hs, 1, n - 1))
            \o hs[n][1] \o <<COLON>> \o hs[n][2] \o <<CRLF>>

\* C12: a Playback response is the status line "HTTP/1.1 200 OK", then one
\* "Name: Value" line for every pair that is not "Transfer-Encoding: chunked",
\* in the order of the record and with repeated pairs repeated, then the empty
\* line, then the body.
C12_HeadersInOrder ==
  \A t \in Tests :
    reply[t].kind = "response" =>
      LET kept == SelectSeq(interaction_mode.data.headers, NotChunkedPair)
      IN reply[t].bytes =
           <<STATUS_LINE, CRLF>> \o WireOf(kept) \o <<CRLF>>
             \o interaction_mode.data.response_body

\* a record with two different pairs that are both kept was replayed
C12_Witness ==
  \E t \in Tests :
    /\ reply[t].kind = "response"
    /\ LET kept == SelectSeq(interaction_mode.data.headers, NotChunkedPair)
       IN Len(kept) = 2 /\ kept[1] # kept[2]

\* C13: the bytes of a Playback response depend on the installed record only:
\* any two connections serviced while the same record is installed were
\* written the same bytes, whatever request each of them sent.
C13_ResponseIndependentOfRequest ==
  \A p, q \in served : p[2] = q[2]

\* two connections that sent different requests were serviced under one record
C13_Witness ==
  \E p, q \in served : p[1] # q[1]

\* C14: when the listener dispatches a connection while the mode is NotSet, it
\* writes nothing to it, does not fail (no panic, no poisoned lock, the state
\* lock released) and is back at accepting, with the connections that wait.
C14_UnsetWritesNothing ==
  [][(lpc = "locking" /\ lpc' # "locking" /\ interaction_mode = NotSet) =>
       /\ lpc' = "accept"
       /\ backlog' = backlog
       /\ reply'[cur[1]].kind # "response"
       /\ served' = served
       /\ ~statePoisoned'
       /\ stateLock' = {}]_vars

\* in NotSet one connection was dropped unanswered and the next one accepted
C14_Witness ==
  \E t, u \in Tests :
    /\ t # u
    /\ interaction_mode = NotSet
    /\ pc[t] = "stray_waiting" /\ reply[t] = Closed
    /\ cur = <<u>>
    /\ lpc = "locking"

\* C15: between tests the mode is NotSet: whenever no test owns the TEST_LOCK
\* guard (before the first prepare_for_test, and after a test released the
\* guard until the next prepare_for_test installs its mode), interaction_mode
\* is NotSet.
C15_UnsetBetweenTests ==
  testLock = {} => interaction_mode = NotSet

\* C16: when the write or flush to a connection whose client has gone fails,
\* the listener drops that connection and is still running its accept loop.
C16_WriteFailureSurvived ==
  [][(lpc = "reading" /\ cur[1] \in hung_up) => lpc' \in Bound]_vars

\* C20: the SERVIRTIUM_INSTANCE lock is not held across I/O: not while the
\* listener waits for the first request line or writes the response, and not
\* while prepare_for_test reads and decodes the fixture file; so no
\* prepare_for_test waits for the state lock because of a client that has not
\* sent its request line.
C20_StateLockNotHeldAcrossIO ==
  /\ lpc = "reading" => LISTENER \notin stateLock
  /\ \A t \in Tests : pc[t] = "install" => t \notin stateLock
  /\ \A t \in Tests :
       pc[t] = "lock_state" =>
         ~(lpc = "reading" /\ ~FirstLineArrived(cur[1]) /\ ~StateLockFree)

\* the positions of a text that hold one of the given atoms, after position lo
After(d, lo, atoms) == {i \in (lo + 1)..Len(d) : d[i] \in atoms}

\* the text has, in this order: the heading marker "## " followed by ".xml",
\* the headers sub-heading followed by an opening and a closing fence, the
\* body sub-heading followed by an opening and a closing fence
HasAnchorsInOrder(d) ==
  \E s \in After(d, 0, {H2, HH, BH}) : \E e \in After(d, s, {XML}) :
    \E h \in After(d, e, {HH}) :
      \E f1 \in After(d, h, {FENCE}) : \E f2 \in After(d, f1, {FENCE}) :
        \E b \in After(d, f2, {BH}) :
          \E f3 \in After(d, b, {FENCE}) : After(d, f3, {FENCE}) # {}

FirstTriple(d) ==
  LET s  == FirstAfter(d, 0, H2)
      h  == FirstAfter(d, s, HH)
      f1 == FirstAfter(d, h, FENCE)
      f2 == FirstAfter(d, f1, FENCE)
      b  == FirstAfter(d, f2, BH)
      f3 == FirstAfter(d, b, FENCE)
      f4 == FirstAfter(d, f3, FENCE)
  IN [s |-> s, nl |-> FirstAfter(d, s, NL),
      headers_part |-> Trim(SubSeq(d, f1 + 1, f2 - 1)),
      body_part |-> Trim(SubSeq(d, f3 + 1, f4 - 1))]

\* C18: the record of an accepted document is its first well-formed triple:
\* the uri is text of the first heading line only, the headers are those of the
\* first headers block after that heading and the body is that of the first
\* body block after it.
C18_FirstTripleCaptured ==
  \A t \in Tests :
    (pc[t] \in Holding /\ interaction_mode.tag = "Playback") =>
      LET d     == files[args[t].path]
          first == FirstTriple(d)
      IN /\ \E i, j \in (first.s + 1)..(first.nl - 1) :
              interaction_mode.data.uri = SubSeq(d, i, j)
         /\ interaction_mode.data.headers = parse_headers(first.headers_part)
         /\ interaction_mode.data.response_body = first.body_part

\* C19: get_average_annual_rainfall returns DateRangeNotSupported(from_year,
\* to_year) exactly when from_year < 1920, or from_year > 2080, or from_year
\* is not a multiple of 20, or to_year is not from_year + 19; in that case no
\* request has been sent, whatever domain the client points at; in every
\* other case the request for these years has been sent.
C19_YearsCheckedBeforeRequest ==
  client.at = "returned" =>
    LET f == client.from_year
        t == client.to_year
        unsupported == f < 1920 \/ f > 2080 \/ f % 20 # 0 \/ t # f + 19
    IN IF unsupported
       THEN /\ client.result = DateRangeNotSupported(f, t)
            /\ client.sent = <<>>
       ELSE /\ client.result = Requested
            /\ client.sent =
                 << <<client.domain_name,
                      "/climateweb/rest/v1/country/annualavg/pr/", f, "/", t,
                      "/", "gbr", ".xml">> >>

\* the call for 1985 to 1995 on a client that points at the playback server
\* returned DateRangeNotSupported(1985, 1995)
C19_Witness ==
  /\ client.at = "returned"
  /\ client.domain_name = PLAYBACK_DOMAIN_NAME
  /\ client.from_year = 1985
  /\ client.to_year = 1995
  /\ client.result = DateRangeNotSupported(1985, 1995)
  /\ client.sent = <<>>

\* C21: a prepare_for_test call in Playback mode that fails while it loads the
\* fixture leaves interaction_mode and domain_name as the call found them.
C21_FailedLoadLeavesState ==
  [][\A t \in Tests :
       (pc[t] = "install" /\ pc'[t] = "failed") =>
         /\ interaction_mode' = args[t].found[1].interaction_mode
         /\ domain_name' = args[t].found[1].domain_name]_vars

\* C22: when the listener dispatches a connection while the mode is Recording,
\* no response is written to that connection, the listener thread ends and
\* never services a connection again, and the state lock is poisoned for
\* good: from then on no prepare_for_test call gets past the state lock, each
\* one fails with PoisonedLock.
C22_RecordingHardStop ==
  /\ [][(lpc = "locking" /\ lpc' # "locking"
            /\ interaction_mode.tag = "Recording") =>
          /\ lpc' = "panicked"
          /\ reply'[cur[1]] = Closed
          /\ served' = served
          /\ statePoisoned']_vars
  /\ [][lpc = "panicked" =>
          /\ lpc' = "panicked"
          /\ \A t \in Tests :
               reply'[t].kind = "response" => reply'[t] = reply[t]]_vars
  /\ [][statePoisoned =>
          /\ statePoisoned'
          /\ \A t \in Tests :
               pc'[t] # pc[t] =>
                 /\ pc'[t] # "install"
                 /\ pc'[t] = "in_test" => pc[t] \in Holding
                 /\ (pc[t] \in {"lock_test", "lock_state"}
                       /\ pc'[t] = "failed") => err'[t] = "PoisonedLock"
                 /\ pc[t] = "lock_state" => pc'[t] = "failed"]_vars

\* after the listener met a Recording mode, a prepare_for_test call failed on
\* the state lock (TEST_LOCK is not poisoned)
C22_Witness ==
  \E t \in Tests :
    /\ interaction_mode.tag = "Recording"
    /\ lpc = "panicked"
    /\ statePoisoned /\ ~testPoisoned
    /\ pc[t] = "failed" /\ err[t] = "PoisonedLock"

\* C23: under fairness every prepare_for_test call returns: a call that has
\* been started gets to its Ok(guard) or to its Err.
C23_PrepareReturns ==
  \A t \in Tests :
    (pc[t] \in {"lock_test", "lock_state", "install"})
      ~> (pc[t] \in {"in_test", "failed"})

\* one call waits for the state lock, which the listener holds while it reads
\* the first line of a connection, and another call waits for TEST_LOCK
C23_Witness ==
  \E t, u \in Tests :
    /\ pc[t] = "lock_state" /\ testLock = {t}
    /\ stateLock = {LISTENER} /\ lpc = "reading"
    /\ pc[u] = "lock_test"

\* C24: check_years never overflows u16: for every from_year, from_year + 19
\* is evaluated only when 1920 <= from_year <= 2080 and from_year is a
\* multiple of 20, where the sum fits in 16 bits; so the check never panics
\* and never compares to_year with a wrapped sum: it returns, and it lets the
\* call go on exactly when to_year is from_year + 19.
C24_NoOverflow ==
  /\ client.at # "panicked"
  /\ client.at \in {"send", "returned"} =>
       LET f == client.from_year
           t == client.to_year
       IN /\ client.summed =>
               /\ 1920 <= f /\ f <= 2080 /\ f % 20 = 0
               /\ f + 19 <= 65535
          /\ (client.at = "send" \/ client.result = Requested) => t = f + 19
          /\ t = f + 19 /\ client.summed => client.result # DateRangeNotSupported(f, t)

\* the check has returned DateRangeNotSupported for from_year = 65535, the
\* largest u16, without evaluating the sum, and with to_year = 18, which is
\* what a wrapped sum would be
C24_Witness ==
  /\ client.at = "returned"
  /\ client.from_year = 65535
  /\ client.to_year = 18
  /\ ~client.summed
  /\ client.result = DateRangeNotSupported(65535, 18)

=============================================================================
